---- MODULE Spec2Model ----
(***************************************************************************)
(* Model of scripts/cleanup_old_metadata.py: the maintenance utility that  *)
(* scans the warehouse for feature views carrying the                      *)
(* SNOWML_FEATURE_VIEW_METADATA tag and, under --drop, deletes the ones    *)
(* its scan reports as bad.                                                *)
(*                                                                         *)
(* The warehouse is the environment.  For every tagged object it holds the *)
(* DOMAIN reported by TAG_REFERENCES and the answer it gives to the        *)
(* per-object tag query: the query raises, it returns no row, or it        *)
(* returns one row holding the tag text.  Objects are named 1..n, so the   *)
(* ORDER BY of the listing query is the order of the names.                *)
(***************************************************************************)
EXTENDS Integers, Sequences, FiniteSets, TLC

(* ------------------------------ bounds --------------------------------- *)

\* Largest number of tagged objects in the warehouse.
MaxObjects == 2

(* --------------------------- JSON values ------------------------------- *)

\* An element of the entities array: a JSON string (v is its text), a JSON
\* object (keys are its field names, v the value of its name field) or a
\* JSON number.
Elem(t, v, keys) == [t |-> t, v |-> v, keys |-> keys]

StrUpper == Elem("str", "A", {})
StrLower == Elem("str", "a", {})
ObjNameJoinKeys == Elem("dict", "A", {"name", "joinKeys"})
ObjNameOnly == Elem("dict", "A", {"name"})
ObjEmpty == Elem("dict", "", {})
Num == Elem("int", "", {})

\* str.upper on the entity names of the model.
Upper(v) == IF v = "a" THEN "A" ELSE v

\* The value stored under the entities key.
EntList(items) == [t |-> "list", items |-> items]
EntString == [t |-> "str", items |-> <<>>]
EntNone == [t |-> "none", items |-> <<>>]

\* A decoded JSON document: a JSON object with the keys it holds, or
\* (t = "list") a document that is not an object.  timestamp_col holds the
\* type of the value stored under that key.
Meta(keys, ents, ts) ==
    [t |-> "dict", keys |-> keys, entities |-> ents, timestamp_col |-> ts]

Record(ents) == Meta({"entities", "timestamp_col"}, ents, "str")

NonDictJson == [t |-> "list", keys |-> {}, entities |-> EntNone, timestamp_col |-> "none"]

\* The records the warehouse may hold as tag values.
Records ==
    { Record(EntList(<<StrUpper>>)),
      Record(EntList(<<StrLower>>)),
      Record(EntList(<<ObjNameJoinKeys>>)),
      Record(EntList(<<ObjNameOnly>>)),
      Record(EntList(<<ObjEmpty>>)),
      Record(EntList(<<Num>>)),
      Record(EntList(<<StrUpper, StrLower>>)),
      Record(EntList(<<StrUpper, ObjNameOnly>>)),
      Record(EntList(<<ObjNameJoinKeys, StrUpper>>)),
      Record(EntList(<<>>)),
      Record(EntString),
      Meta({"timestamp_col"}, EntNone, "str"),
      Meta({"entities"}, EntList(<<StrUpper>>), "none") }

\* Tag text: valid JSON text encoding json, or text that is not JSON.
InvalidText == [valid |-> FALSE, json |-> NonDictJson]
TextOf(json) == [valid |-> TRUE, json |-> json]

TagTexts == {InvalidText, TextOf(NonDictJson)} \cup {TextOf(r) : r \in Records}

\* What the warehouse answers to the per-object tag query.
RaiseResp == [kind |-> "raise", text |-> InvalidText]
NoRowResp == [kind |-> "norow", text |-> InvalidText]
RowResp(text) == [kind |-> "row", text |-> text]

Responses == {RaiseResp, NoRowResp} \cup {RowResp(t) : t \in TagTexts}

\* DOMAIN values of TAG_REFERENCES for tagged objects.
Domains == {"TABLE", "VIEW", "COLUMN"}

ObjectStates == [domain : Domains, resp : Responses]

(* ------------------- find_bad_feature_views, per object ----------------- *)

\* json.loads: raises on text that is not JSON, else yields the document.
json_loads(text) == [raised |-> ~text.valid, val |-> text.json]

\* json.dumps of a decoded document gives back valid JSON text.
json_dumps(json) == [valid |-> TRUE, json |-> json]

\* metadata.get('entities', []): the stored value, [] when the key is absent.
get_entities(metadata) ==
    IF "entities" \in metadata.keys THEN metadata.entities ELSE EntList(<<>>)

\* Python truth value of the entities value.
Truthy(e) ==
    CASE e.t = "list" -> Len(e.items) > 0
      [] e.t = "str" -> TRUE
      [] OTHER -> FALSE

\* isinstance(x, str) on an element of the entities list.
IsStrMutant(x) == x.t = "dict"
IsStr(x) == x.t = "str"

\* Lines 68-72: the object is reported BAD exactly when entities is a
\* non-empty list whose first element is a string.
IsOldFormatFlagsAll(metadata) ==
    LET entities == get_entities(metadata)
    IN  Truthy(entities) /\ entities.t = "list"
IsOldFormat(metadata) ==
    LET entities == get_entities(metadata)
    IN  /\ Truthy(entities)
        /\ entities.t = "list"
        /\ IsStr(entities.items[1])

\* The body of the try block for one object (lines 53-85): the exception it
\* raises, "skip" when the query returned no row, else "bad" or "ok".
check_object(resp) ==
    IF resp.kind = "raise" THEN "ProgrammingError"
    ELSE IF resp.kind = "norow" THEN "skip"
    ELSE LET d == json_loads(resp.text)
         IN  IF d.raised THEN "JSONDecodeError"
             ELSE IF d.val.t # "dict" THEN "AttributeError"
             ELSE IF IsOldFormat(d.val) THEN "bad" ELSE "ok"

Exceptions == {"ProgrammingError", "JSONDecodeError", "AttributeError"}

\* `except Exception` of the scan loop (line 86) and of the drop loop
\* (line 104): each catches every exception the guarded statements raise.
ScanCatchesOnlyQueryErrors(e) == e = "ProgrammingError"
ScanCatches(e) == e \in Exceptions
DropCatchesNothing(e) == FALSE
DropCatches(e) == e \in Exceptions

(* --------------------------------- main --------------------------------- *)

\* Line 113: the only argument check.
UsageErrorNever(a) == FALSE
UsageError(a) == ~a.check /\ ~a.drop

\* Lines 125 and 129: drop_feature_views runs when the bad list is not empty
\* and --drop was given.
ShouldDropIgnoresFlag(a, bad) == bad # <<>>
ShouldDrop(a, bad) == bad # <<>> /\ a.drop

\* Lines 116-117: get_connection raises when the warehouse cannot be
\* reached and nothing in main catches it.
AfterConnectGoesOn(ok) == "list"
AfterConnect(ok) == IF ok THEN "list" ELSE "done"

\* Lines 119 and 140: an exception raised inside the try of main runs the
\* finally block before it leaves main.
OnExceptionSkipsFinally == "done"
OnException == "finally"

\* Line 98: the kind of DROP statement for a recorded type.
DropTypeAlwaysView(type) == "VIEW"
DropType(type) == IF type = "TABLE" THEN "DYNAMIC TABLE" ELSE "VIEW"

\* Line 102: the statement is issued with IF EXISTS.
IfExistsAbsent == FALSE
IfExists == TRUE

\* Line 102: cursor.execute of the DROP statement.  On an object that
\* exists it succeeds unless the warehouse refuses it (fault); on an object
\* that is gone it succeeds when issued with IF EXISTS and raises otherwise.
execute_drop(exists, fault) ==
    IF exists
    THEN (IF fault THEN "ProgrammingError" ELSE "ok")
    ELSE (IF IfExists THEN "ok" ELSE "ProgrammingError")

Stmt(op, name, type) == [op |-> op, name |-> name, type |-> type]
Line(kind, name, type, text, n) ==
    [kind |-> kind, name |-> name, type |-> type, text |-> text, n |-> n]

\* Line 102: the objects that exist after a DROP that succeeded.
AfterDropKeeps(objs, name) == objs
AfterDrop(objs, name) == objs \ {name}

VARIABLES
    store,        \* name -> [domain, resp]: the tagged objects ever created
    present,      \* names of the objects that still exist
    args,         \* the parsed command line
    pc,           \* position in main
    conn,         \* "none", "open", "failed" (connect raised), "closed"
    cursor,       \* "none", "open", "closed"
    connects,     \* calls of get_connection
    objects,      \* find_bad_feature_views: the listing fetched
    i,            \* find_bad_feature_views: next position of the listing
    bad_objects,  \* the bad list
    j,            \* drop_feature_views: next position of the bad list
    stmts,        \* statements executed on the cursor, in order
    out,          \* the report printed so far
    exit,         \* exit status, -1 while running
    pending,      \* an exception is propagating out of the try of main
    closes,       \* calls of cursor.close() and of conn.close()
    prev,         \* what the previous run of the utility left: flags, bad list, report
    env,          \* names of the environment variables that are set
    params,       \* per caller, the connection parameters it built
    session,      \* the module's Session: "none", "open", "failed", "closed"
    creates,      \* calls of Session.builder...create() in the module
    sess_closes,  \* calls of session.close() in the module
    tests,        \* the tests of the module still to run, in order
    ran,          \* the tests run so far: the session they met, their outcome
    fpc,          \* "running" until the module's fixtures are torn down
    dbt_metadata,     \* the metadata record of the dbt-created feature view
    python_metadata,  \* the metadata record of the reference feature view
    verdict           \* per test function, how its run on the records ended

\* The state of the warehouse and of one process of the utility.
mainvars == <<store, present, args, pc, conn, cursor, connects, objects, i,
              bad_objects, j, stmts, out, exit, pending, closes>>

\* The state of the connection set-up of the utility and the test fixtures.
envvars == <<env, params>>

\* The state of the test modules.
\* The state of one test module and of its snowflake_session fixture.
fixvars == <<session, creates, sess_closes, tests, ran, fpc>>

\* The records under test and the outcomes of the test functions.
tvars == <<dbt_metadata, python_metadata, verdict>>

testvars == <<envvars, fixvars, tvars>>

\* The variables the utility's own steps leave alone.
others == <<prev, testvars>>

vars == <<mainvars, others>>

NoArgs == [check |-> FALSE, drop |-> FALSE]
NoPrev == [ran |-> FALSE, args |-> NoArgs, bad_objects |-> <<>>, out |-> <<>>, exit |-> -1]

\* The rows of the listing query, ordered by name.
RECURSIVE Listing(_, _)
Listing(n, k) ==
    IF k > n THEN <<>>
    ELSE (IF k \in present THEN <<[name |-> k, domain |-> store[k].domain]>> ELSE <<>>)
         \o Listing(n, k + 1)

\* The answer of the per-object tag query: it raises for an object that is gone.
TagQuery(name) == IF name \in present THEN store[name].resp ELSE RaiseResp

(* -------------------------- connection parameters --------------------- *)

EnvVars ==
    { "SNOWFLAKE_ACCOUNT", "SNOWFLAKE_USER", "SNOWFLAKE_PASSWORD", "SNOWFLAKE_ROLE",
      "SNOWFLAKE_WAREHOUSE", "SNOWFLAKE_DATABASE", "SNOWFLAKE_SCHEMA" }

\* A value handed to the connection: the value of an environment variable,
\* None, or a literal of the source.
FromEnv(name) == [kind |-> "env", v |-> name]
None == [kind |-> "none", v |-> ""]
Literal(text) == [kind |-> "literal", v |-> text]

\* os.environ.get(name) and os.environ.get(name, default).
environ_get(e, name) == IF name \in e THEN FromEnv(name) ELSE None
environ_get_default(e, name, default) ==
    IF name \in e THEN FromEnv(name) ELSE Literal(default)

Item(key, val) == [key |-> key, val |-> val]

\* The five parameters every caller reads without a default.
CommonParams(e) ==
    { Item("account", environ_get(e, "SNOWFLAKE_ACCOUNT")),
      Item("user", environ_get(e, "SNOWFLAKE_USER")),
      Item("password", environ_get(e, "SNOWFLAKE_PASSWORD")),
      Item("role", environ_get(e, "SNOWFLAKE_ROLE")),
      Item("warehouse", environ_get(e, "SNOWFLAKE_WAREHOUSE")) }

\* {k: v for k, v in connection_params.items() if v is not None}
FilterNone(d) == {it \in d : it.val # None}

\* get_connection: the keyword arguments of snowflake.connector.connect.
get_connection(e) ==
    CommonParams(e)
    \cup {Item("database", environ_get_default(e, "SNOWFLAKE_DATABASE", "rsureshbabu"))}

\* snowflake_session of test_feature_store_api.py.
session_params_api(e) ==
    FilterNone(CommonParams(e)
               \cup {Item("database", environ_get(e, "SNOWFLAKE_DATABASE")),
                     Item("schema", environ_get_default(e, "SNOWFLAKE_SCHEMA", "FEATURE_STORE"))})

\* snowflake_session of test_metadata_compatibility.py and of
\* test_feature_store_workflows.py.
session_params(e) ==
    FilterNone(CommonParams(e) \cup {Item("database", environ_get(e, "SNOWFLAKE_DATABASE"))})

Callers == {"cleanup", "api", "compatibility", "workflows"}

BuildParams(c, e) ==
    CASE c = "cleanup" -> get_connection(e)
      [] c = "api" -> session_params_api(e)
      [] OTHER -> session_params(e)

\* No caller has built its parameters yet.
NotBuilt == {Item("", None)}

EnvIdle == env = {} /\ params = [c \in Callers |-> NotBuilt]

FixIdle ==
    /\ session = "none"
    /\ creates = 0
    /\ sess_closes = 0
    /\ tests = <<>>
    /\ ran = <<>>
    /\ fpc = "idle"

(* ----------------------- the metadata shape checks --------------------- *)

\* Largest number of elements of an entities list under test.
MaxEntities == 2

\* An element of entities as the tests see it: a string (v its text), a
\* number, or an object with its keys, the value v of its name and the
\* shape jk of its joinKeys: a non-empty list, an empty list or a string.
TElem(t, v, keys, jk) == [t |-> t, v |-> v, keys |-> keys, jk |-> jk]

TElems ==
    {TElem("str", v, {}, "none") : v \in {"A", "a"}}
    \cup {TElem("int", "", {}, "none"), TElem("dict", "", {}, "none")}
    \cup {TElem("dict", v, {"name"}, "none") : v \in {"A", "a"}}
    \cup {TElem("dict", "", {"joinKeys"}, k) : k \in {"list1", "list0", "str"}}
    \cup {TElem("dict", x[1], {"name", "joinKeys"}, x[2]) :
             x \in {"A", "a"} \X {"list1", "list0", "str"}}

Lists(S) == UNION {[1..n -> S] : n \in 0..MaxEntities}

\* The values of the entities key: a list, a string (items are its
\* characters), a number or null.
TEntities ==
    {[t |-> "list", items |-> l] : l \in Lists(TElems)}
    \cup {[t |-> "str", items |-> <<TElem("str", v, {}, "none")>>] : v \in {"A", "a"}}
    \cup {[t |-> "int", items |-> <<>>], [t |-> "none", items |-> <<>>]}

NoValue == [t |-> "none", items |-> <<>>]

\* The decoded records: JSON objects with any of the keys entities,
\* timestamp_col and desc.
TRecordsOver(E) ==
    {[t |-> "dict", keys |-> {"entities"} \cup k, entities |-> e, timestamp_col |-> "none"] :
         e \in E, k \in SUBSET {"desc"}}
    \cup {[t |-> "dict", keys |-> {"entities", "timestamp_col"} \cup k,
            entities |-> e, timestamp_col |-> ts] :
              e \in E, k \in SUBSET {"desc"}, ts \in {"str", "int"}}
    \cup {[t |-> "dict", keys |-> {"timestamp_col"} \cup k,
            entities |-> NoValue, timestamp_col |-> ts] :
              k \in SUBSET {"desc"}, ts \in {"str", "int"}}
    \cup {[t |-> "dict", keys |-> {}, entities |-> NoValue, timestamp_col |-> "none"]}

TRecords == TRecordsOver(TEntities)

\* get_metadata_from_snowflake returns None when the tag query has no row.
NoMetadata == [t |-> "none", keys |-> {}, entities |-> NoValue, timestamp_col |-> "none"]

\* `for entity in entities` raises TypeError on a number and on None.
Iterable(e) == e.t \in {"list", "str"}

\* test_entities_are_uppercase_strings (test_metadata_compatibility.py,
\* lines 202-224): the loop asserts on each element in turn.
UppercaseElemOkAnyType(x) == x.v = Upper(x.v)
UppercaseElemOk(x) == x.t = "str" /\ x.v = Upper(x.v)

test_entities_are_uppercase_strings(m) ==
    IF m.t # "dict" THEN "AttributeError"
    ELSE LET entities == IF "entities" \in m.keys THEN m.entities
                         ELSE [t |-> "list", items |-> <<>>]
         IN  IF ~Iterable(entities) THEN "TypeError"
             ELSE IF \E p \in 1..Len(entities.items) : ~UppercaseElemOk(entities.items[p])
             THEN "AssertionError"
             ELSE "pass"

\* test_feature_view_metadata_structure_ui_compatibility
\* (test_feature_store_api.py, lines 186-212), for one row.
UiElemOkNoJoinKeys(x) ==
    x.t = "dict" /\ "name" \in x.keys /\ x.v = Upper(x.v)
UiElemOk(x) ==
    /\ x.t = "dict"
    /\ "name" \in x.keys
    /\ "joinKeys" \in x.keys
    /\ x.jk \in {"list1", "list0"}
    /\ x.jk = "list1"
    /\ x.v = Upper(x.v)

test_ui_compatibility(m) ==
    IF "entities" \notin m.keys THEN "AssertionError"
    ELSE IF "timestamp_col" \notin m.keys THEN "AssertionError"
    ELSE IF m.entities.t # "list" THEN "AssertionError"
    ELSE IF Len(m.entities.items) = 0 THEN "AssertionError"
    ELSE IF \E p \in 1..Len(m.entities.items) : ~UiElemOk(m.entities.items[p]) THEN "AssertionError"
    ELSE "pass"

\* test_ui_can_parse_metadata (test_metadata_compatibility.py, lines
\* 284-331).  The body of its try block:
ParseElemOk(x) ==
    \/ x.t = "str"
    \/ x.t = "dict" /\ "name" \in x.keys /\ "joinKeys" \in x.keys

ParseBody(m) ==
    IF m.t # "dict" THEN "TypeError"
    ELSE IF "entities" \notin m.keys THEN "KeyError"
    ELSE IF ~Iterable(m.entities) THEN "TypeError"
    ELSE IF \E p \in 1..Len(m.entities.items) : ~ParseElemOk(m.entities.items[p]) THEN "AssertionError"
    ELSE "pass"

\* `except KeyError` (lines 328-331) turns a KeyError into an assertion
\* failure and lets everything else through.
ExceptKeyErrorMissing(r) == r
ExceptKeyError(r) == IF r = "KeyError" THEN "AssertionError" ELSE r

test_ui_can_parse_metadata(m) == ExceptKeyError(ParseBody(m))

\* The two-record comparisons are run on records whose elements stand for
\* the element types: a string, an object with name, one without, a number.
CompareElems ==
    { TElem("str", "A", {}, "none"), TElem("int", "", {}, "none"),
      TElem("dict", "A", {"name", "joinKeys"}, "list1"),
      TElem("dict", "", {"joinKeys"}, "list1") }

CompareEntities ==
    {[t |-> "list", items |-> l] : l \in Lists(CompareElems)}
    \cup {[t |-> "str", items |-> <<TElem("str", "A", {}, "none")>>],
          [t |-> "int", items |-> <<>>], [t |-> "none", items |-> <<>>]}

CompareRecords == TRecordsOver(CompareEntities)

\* normalize_metadata (test_metadata_compatibility.py, lines 265-272): the
\* exception it raises (err), else the normalised structure.
Normalized(err, et, n, first, ts, keys) ==
    [err |-> err, entities_type |-> et, entities_count |-> n,
     first_entity_type |-> first, timestamp_col_type |-> ts, keys |-> keys]

Raised(err) == Normalized(err, "", 0, "", "", {})

normalize_metadata(meta) ==
    IF meta.t # "dict" THEN Raised("TypeError")
    ELSE IF "entities" \notin meta.keys THEN Raised("KeyError")
    ELSE IF ~Iterable(meta.entities) THEN Raised("TypeError")
    ELSE IF "timestamp_col" \notin meta.keys THEN Raised("KeyError")
    ELSE Normalized("", meta.entities.t, Len(meta.entities.items),
                    IF meta.entities.items # <<>> THEN meta.entities.items[1].t ELSE "None",
                    meta.timestamp_col, meta.keys)

\* test_compare_full_json_structure (lines 241-281).
test_compare_full_json_structure(python, dbt) ==
    LET python_normalized == normalize_metadata(python)
        dbt_normalized == normalize_metadata(dbt)
    IN  IF python_normalized.err # "" THEN python_normalized.err
        ELSE IF dbt_normalized.err # "" THEN dbt_normalized.err
        ELSE IF python_normalized = dbt_normalized THEN "pass"
        ELSE "AssertionError"

\* test_metadata_structure_matches_python_api (lines 134-200).
test_metadata_structure_matches_python_api(python, dbt) ==
    IF python.t = "none" \/ dbt.t = "none" THEN "AssertionError"
    ELSE LET python_entities == IF "entities" \in python.keys THEN python.entities
                                ELSE [t |-> "list", items |-> <<>>]
             dbt_entities == IF "entities" \in dbt.keys THEN dbt.entities
                             ELSE [t |-> "list", items |-> <<>>]
         IN  IF python_entities.t # "list" \/ dbt_entities.t # "list" THEN "AssertionError"
             ELSE IF Len(python_entities.items) = 0 \/ Len(dbt_entities.items) = 0
             THEN "AssertionError"
             ELSE IF python_entities.items[1].t # dbt_entities.items[1].t
             THEN "AssertionError"
             ELSE IF /\ python_entities.items[1].t = "dict"
                     /\ \/ "name" \notin python_entities.items[1].keys
                        \/ "name" \notin dbt_entities.items[1].keys
             THEN "AssertionError"
             ELSE IF python.keys # dbt.keys THEN "AssertionError"
             ELSE "pass"

Tests == {"uppercase", "ui_compatibility", "ui_parse", "compare_full", "matches_python_api"}

NotRun == [t \in Tests |-> "not run"]

TIdle ==
    /\ dbt_metadata = NoMetadata
    /\ python_metadata = NoMetadata
    /\ verdict = NotRun

TestsIdle == EnvIdle /\ FixIdle /\ TIdle

\* A process of the utility before main runs.
Fresh ==
    /\ args = NoArgs
    /\ pc = "start"
    /\ conn = "none"
    /\ cursor = "none"
    /\ connects = 0
    /\ objects = <<>>
    /\ i = 1
    /\ bad_objects = <<>>
    /\ j = 1
    /\ stmts = <<>>
    /\ out = <<>>
    /\ exit = -1
    /\ pending = FALSE
    /\ closes = [cursor |-> 0, conn |-> 0]

Init ==
    /\ \E n \in 0..MaxObjects : store \in [1..n -> ObjectStates]
    /\ present = DOMAIN store
    /\ Fresh
    /\ prev = NoPrev
    /\ TestsIdle

\* Lines 108-114: parse the flags; parser.error prints to stderr and exits 2.
ParseArgs ==
    /\ pc = "start"
    /\ \E c \in BOOLEAN, d \in BOOLEAN :
         /\ args' = [check |-> c, drop |-> d]
         /\ IF UsageError(args')
            THEN /\ pc' = "done"
                 /\ exit' = 2
                 /\ out' = Append(out, Line("USAGE", 0, "", InvalidText, 0))
            ELSE /\ pc' = "connect"
                 /\ UNCHANGED <<exit, out>>
    /\ UNCHANGED <<others, closes, store, present, conn, cursor, connects, objects, i,
                   bad_objects, j, stmts, pending>>

\* Lines 116-117: open the connection and its cursor.
Connect ==
    /\ pc = "connect"
    /\ connects' = connects + 1
    /\ \E ok \in BOOLEAN :
         /\ conn' = IF ok THEN "open" ELSE "failed"
         /\ cursor' = IF ok THEN "open" ELSE "none"
         /\ pc' = AfterConnect(ok)
         /\ exit' = IF pc' = "done" THEN 1 ELSE exit
    /\ UNCHANGED <<others, closes, store, present, args, objects, i, bad_objects, j, stmts,
                   out, pending>>

\* Lines 34-48: the listing query; its failure is not caught in the scan.
ListObjects ==
    /\ pc = "list"
    /\ stmts' = Append(stmts, Stmt("LIST", 0, ""))
    /\ \E ok \in BOOLEAN :
         IF ok
         THEN /\ objects' = Listing(Len(store), 1)
              /\ pc' = "scan"
              /\ UNCHANGED pending
         ELSE /\ pending' = TRUE
              /\ pc' = OnException
              /\ UNCHANGED objects
    /\ i' = 1
    /\ bad_objects' = <<>>
    /\ UNCHANGED <<others, closes, store, present, args, conn, cursor, connects, j, out, exit>>

\* Lines 50-87: one iteration of the scan loop.
Inspect ==
    /\ pc = "scan"
    /\ i <= Len(objects)
    /\ LET obj == objects[i]
           resp == TagQuery(obj.name)
           r == check_object(resp)
       IN  /\ stmts' = Append(stmts, Stmt("TAG", obj.name, ""))
           /\ IF r = "bad"
              THEN /\ out' = Append(out, Line("BAD", obj.name, obj.domain,
                                              json_dumps(json_loads(resp.text).val), 0))
                   /\ bad_objects' = Append(bad_objects,
                                            [name |-> obj.name, type |-> obj.domain])
                   /\ i' = i + 1
                   /\ UNCHANGED <<pc, pending>>
              ELSE IF r \in {"ok", "skip"}
              THEN /\ i' = i + 1
                   /\ UNCHANGED <<out, bad_objects, pc, pending>>
              ELSE IF ScanCatches(r)
              THEN /\ out' = Append(out, Line("ERR", obj.name, "", InvalidText, 0))
                   /\ i' = i + 1
                   /\ UNCHANGED <<bad_objects, pc, pending>>
              ELSE /\ pending' = TRUE
                   /\ pc' = OnException
                   /\ UNCHANGED <<out, bad_objects, i>>
    /\ UNCHANGED <<others, closes, store, present, args, conn, cursor, connects, objects, j, exit>>

\* Lines 89 and 122-138: the scan returns, main prints the summary and
\* decides whether to drop.
Summary ==
    /\ pc = "scan"
    /\ i > Len(objects)
    /\ out' = Append(out, Line("SUMMARY", 0, "", InvalidText, Len(bad_objects)))
    /\ pc' = IF ShouldDrop(args, bad_objects) THEN "drop" ELSE "finally"
    /\ j' = 1
    /\ UNCHANGED <<others, closes, store, present, args, conn, cursor, connects, objects, i,
                   bad_objects, stmts, exit, pending>>

\* Lines 96-105: one iteration of the drop loop.  DROP ... IF EXISTS that
\* succeeds removes the object when it still exists.
DropOne ==
    /\ pc = "drop"
    /\ j <= Len(bad_objects)
    /\ LET obj == bad_objects[j]
           obj_type == DropType(obj.type)
       IN  /\ stmts' = Append(stmts, Stmt("DROP", obj.name, obj_type))
           /\ \E fault \in BOOLEAN :
                LET r == execute_drop(obj.name \in present, fault)
                IN
                IF r = "ok"
                THEN /\ present' = AfterDrop(present, obj.name)
                     /\ out' = Append(out, Line("DROPPED", obj.name, obj_type, InvalidText, 0))
                     /\ j' = j + 1
                     /\ UNCHANGED <<pc, pending>>
                ELSE IF DropCatches(r)
                THEN /\ out' = Append(out, Line("DROPERR", obj.name, obj_type, InvalidText, 0))
                     /\ j' = j + 1
                     /\ UNCHANGED <<present, pc, pending>>
                ELSE /\ pending' = TRUE
                     /\ pc' = OnException
                     /\ UNCHANGED <<present, out, j>>
    /\ UNCHANGED <<others, closes, store, args, conn, cursor, connects, objects, i,
                   bad_objects, exit>>

\* Lines 132-133: drop_feature_views returns.
DropComplete ==
    /\ pc = "drop"
    /\ j > Len(bad_objects)
    /\ out' = Append(out, Line("COMPLETE", 0, "", InvalidText, 0))
    /\ pc' = "finally"
    /\ UNCHANGED <<others, closes, store, present, args, conn, cursor, connects, objects, i,
                   bad_objects, j, stmts, exit, pending>>

\* Lines 140-142: the finally block, then the process ends.
Finally ==
    /\ pc = "finally"
    /\ cursor' = "closed"
    /\ conn' = "closed"
    /\ closes' = [cursor |-> closes.cursor + 1, conn |-> closes.conn + 1]
    /\ exit' = IF pending THEN 1 ELSE 0
    /\ pc' = "done"
    /\ UNCHANGED <<others, store, present, args, connects, objects, i, bad_objects,
                   j, stmts, out, pending>>

Next ==
    \/ ParseArgs
    \/ Connect
    \/ ListObjects
    \/ Inspect
    \/ Summary
    \/ DropOne
    \/ DropComplete
    \/ Finally

Spec == Init /\ [][Next]_vars

(* ------------------------- running the utility again -------------------- *)

\* The objects of the stores on which the utility is run repeatedly.
RerunResponses ==
    { RaiseResp, NoRowResp, RowResp(InvalidText),
      RowResp(TextOf(Record(EntList(<<StrUpper>>)))),
      RowResp(TextOf(Record(EntList(<<ObjNameJoinKeys>>)))),
      RowResp(TextOf(Record(EntList(<<StrUpper, ObjNameOnly>>)))),
      RowResp(TextOf(Record(EntList(<<>>)))) }

RerunObjectStates == [domain : {"TABLE", "VIEW"}, resp : RerunResponses]

InitRerun ==
    /\ \E n \in 0..MaxObjects : store \in [1..n -> RerunObjectStates]
    /\ present = DOMAIN store
    /\ Fresh
    /\ prev = NoPrev
    /\ TestsIdle

\* Lines 144-145: the script is started again, as a new process, against
\* the store as the previous run left it.
Rerun ==
    /\ pc = "done"
    /\ prev' = [ran |-> TRUE, args |-> args, bad_objects |-> bad_objects,
                out |-> out, exit |-> exit]
    /\ UNCHANGED testvars
    /\ args' = NoArgs
    /\ pc' = "start"
    /\ conn' = "none"
    /\ cursor' = "none"
    /\ connects' = 0
    /\ objects' = <<>>
    /\ i' = 1
    /\ bad_objects' = <<>>
    /\ j' = 1
    /\ stmts' = <<>>
    /\ out' = <<>>
    /\ exit' = -1
    /\ pending' = FALSE
    /\ closes' = [cursor |-> 0, conn |-> 0]
    /\ UNCHANGED <<store, present>>

NextRerun ==
    \/ ParseArgs
    \/ Connect
    \/ ListObjects
    \/ Inspect
    \/ Summary
    \/ DropOne
    \/ DropComplete
    \/ Finally
    \/ Rerun

SpecRerun == InitRerun /\ [][NextRerun]_vars

(* -------------- objects dropped by others during a run ------------------ *)

\* The objects of the stores considered when other sessions drop objects
\* while the utility runs.
ConcurrentResponses ==
    { RaiseResp,
      RowResp(TextOf(Record(EntList(<<StrUpper>>)))),
      RowResp(TextOf(Record(EntList(<<ObjNameJoinKeys>>)))) }

ConcurrentObjectStates == [domain : Domains, resp : ConcurrentResponses]

InitConcurrent ==
    /\ \E n \in 0..MaxObjects : store \in [1..n -> ConcurrentObjectStates]
    /\ present = DOMAIN store
    /\ Fresh
    /\ prev = NoPrev
    /\ TestsIdle

\* Another session drops a tagged object while the utility is connected;
\* line 102 issues its own DROP with IF EXISTS for this case.
DropElsewhere ==
    /\ pc \in {"list", "scan", "drop"}
    /\ \E k \in present : present' = present \ {k}
    /\ UNCHANGED <<others, closes, store, args, pc, conn, cursor, connects, objects, i,
                   bad_objects, j, stmts, out, exit, pending>>

NextConcurrent ==
    \/ ParseArgs
    \/ Connect
    \/ ListObjects
    \/ Inspect
    \/ Summary
    \/ DropOne
    \/ DropComplete
    \/ Finally
    \/ DropElsewhere

SpecConcurrent == InitConcurrent /\ [][NextConcurrent]_vars

(* --------------------- building connection parameters ----------------- *)

InitEnv ==
    /\ store = <<>>
    /\ present = {}
    /\ Fresh
    /\ prev = NoPrev
    /\ env \in SUBSET EnvVars
    /\ params = [c \in Callers |-> NotBuilt]
    /\ FixIdle
    /\ TIdle

\* The utility builds its connection arguments (lines 19-26).
BuildCleanup ==
    /\ params["cleanup"] = NotBuilt
    /\ params' = [params EXCEPT !["cleanup"] = BuildParams("cleanup", env)]
    /\ UNCHANGED <<mainvars, prev, env, fixvars, tvars>>

\* A snowflake_session fixture builds its connection_params.
BuildFixture ==
    /\ \E c \in Callers \ {"cleanup"} :
         /\ params[c] = NotBuilt
         /\ params' = [params EXCEPT ![c] = BuildParams(c, env)]
    /\ UNCHANGED <<mainvars, prev, env, fixvars, tvars>>

NextEnv ==
    \/ BuildCleanup
    \/ BuildFixture

SpecEnv == InitEnv /\ [][NextEnv]_vars

(* ------------------- the snowflake_session fixture --------------------- *)

\* Largest number of tests in a module.
MaxTests == 3

\* @pytest.fixture(scope="module"): the fixture is set up for the first
\* test of the module that requests it and torn down after the module's
\* last test.
FixtureScopeFunction == "function"
FixtureScope == "module"

\* A test of the module: whether it requests snowflake_session (directly or
\* through feature_store).
TestItems == [uses : BOOLEAN]

InitFixture ==
    /\ store = <<>>
    /\ present = {}
    /\ Fresh
    /\ prev = NoPrev
    /\ EnvIdle
    /\ session = "none"
    /\ creates = 0
    /\ sess_closes = 0
    /\ \E n \in 1..MaxTests : tests \in [1..n -> TestItems]
    /\ ran = <<>>
    /\ fpc = "running"
    /\ TIdle

\* pytest runs the next test.  If it requests the fixture and the fixture
\* is not set up, the fixture body runs to its yield (create raises or
\* returns a session; a failure is cached for the module).  The test body
\* then runs, unless its set-up failed, and passes or fails.  A
\* function-scoped fixture would be finalised after each test.
RunTest ==
    /\ fpc = "running"
    /\ tests # <<>>
    /\ LET t == Head(tests)
           setup == t.uses /\ session \in {"none", "closed"}
       IN  \E ok \in BOOLEAN, outcome \in {"pass", "fail"} :
             LET met == IF setup THEN (IF ok THEN "open" ELSE "failed") ELSE session
                 result == IF t.uses /\ met = "failed" THEN "error" ELSE outcome
                 finalise == FixtureScope = "function" /\ t.uses /\ met = "open"
             IN  /\ (~setup => ok)
                 /\ (t.uses /\ met = "failed" => outcome = "fail")
                 /\ creates' = IF setup THEN creates + 1 ELSE creates
                 /\ ran' = Append(ran, [uses |-> t.uses, session |-> met, result |-> result])
                 /\ session' = IF finalise THEN "closed" ELSE met
                 /\ sess_closes' = IF finalise THEN sess_closes + 1 ELSE sess_closes
    /\ tests' = Tail(tests)
    /\ UNCHANGED <<mainvars, prev, envvars, fpc, tvars>>

\* After the module's last test pytest resumes the fixture after its yield:
\* session.close().
Teardown ==
    /\ fpc = "running"
    /\ tests = <<>>
    /\ fpc' = "finished"
    /\ session' = IF session = "open" THEN "closed" ELSE session
    /\ sess_closes' = IF session = "open" THEN sess_closes + 1 ELSE sess_closes
    /\ UNCHANGED <<mainvars, prev, envvars, creates, tests, ran, tvars>>

NextFixture ==
    \/ RunTest
    \/ Teardown

SpecFixture == InitFixture /\ [][NextFixture]_vars

(* ------------------ running the shape checks on a record --------------- *)

InitTests ==
    /\ store = <<>>
    /\ present = {}
    /\ Fresh
    /\ prev = NoPrev
    /\ EnvIdle
    /\ FixIdle
    /\ dbt_metadata \in TRecords \cup {NoMetadata}
    /\ python_metadata = NoMetadata
    /\ verdict = NotRun

RunUppercase ==
    /\ verdict["uppercase"] = "not run"
    /\ verdict' = [verdict EXCEPT !["uppercase"] =
                       test_entities_are_uppercase_strings(dbt_metadata)]
    /\ UNCHANGED <<mainvars, prev, envvars, fixvars, dbt_metadata, python_metadata>>

\* The rows of this test come from the tag query itself, so there is a record.
RunUiCompatibility ==
    /\ verdict["ui_compatibility"] = "not run"
    /\ dbt_metadata # NoMetadata
    /\ verdict' = [verdict EXCEPT !["ui_compatibility"] = test_ui_compatibility(dbt_metadata)]
    /\ UNCHANGED <<mainvars, prev, envvars, fixvars, dbt_metadata, python_metadata>>

RunUiParse ==
    /\ verdict["ui_parse"] = "not run"
    /\ verdict' = [verdict EXCEPT !["ui_parse"] = test_ui_can_parse_metadata(dbt_metadata)]
    /\ UNCHANGED <<mainvars, prev, envvars, fixvars, dbt_metadata, python_metadata>>

NextTests ==
    \/ RunUppercase
    \/ RunUiCompatibility
    \/ RunUiParse

SpecTests == InitTests /\ [][NextTests]_vars

(* ------------------ comparing the two records' structure --------------- *)

InitCompare ==
    /\ store = <<>>
    /\ present = {}
    /\ Fresh
    /\ prev = NoPrev
    /\ EnvIdle
    /\ FixIdle
    /\ dbt_metadata \in CompareRecords \cup {NoMetadata}
    /\ python_metadata \in CompareRecords \cup {NoMetadata}
    /\ verdict = NotRun

RunCompareFull ==
    /\ verdict["compare_full"] = "not run"
    /\ verdict' = [verdict EXCEPT !["compare_full"] =
                       test_compare_full_json_structure(python_metadata, dbt_metadata)]
    /\ UNCHANGED <<mainvars, prev, envvars, fixvars, dbt_metadata, python_metadata>>

RunMatchesPythonApi ==
    /\ verdict["matches_python_api"] = "not run"
    /\ verdict' = [verdict EXCEPT !["matches_python_api"] =
                       test_metadata_structure_matches_python_api(python_metadata, dbt_metadata)]
    /\ UNCHANGED <<mainvars, prev, envvars, fixvars, dbt_metadata, python_metadata>>

NextCompare ==
    \/ RunCompareFull
    \/ RunMatchesPythonApi

SpecCompare == InitCompare /\ [][NextCompare]_vars

(* ------------------------ vocabulary of the claims ---------------------- *)

\* The object's tag query returns a row whose text decodes.
Readable(k) == store[k].resp.kind = "row" /\ store[k].resp.text.valid
MetaOf(k) == store[k].resp.text.json

\* Conforming shape: entities is a non-empty list of strings, each equal to
\* its own uppercase form, and timestamp_col is a string.
Conforming(m) ==
    /\ m.t = "dict"
    /\ "entities" \in m.keys
    /\ m.entities.t = "list"
    /\ Len(m.entities.items) > 0
    /\ \A p \in 1..Len(m.entities.items) :
         m.entities.items[p].t = "str"
         /\ m.entities.items[p].v = Upper(m.entities.items[p].v)
    /\ "timestamp_col" \in m.keys
    /\ m.timestamp_col = "str"

\* Legacy shape: every element of entities is an object containing name.
Legacy(m) ==
    /\ m.t = "dict"
    /\ "entities" \in m.keys
    /\ m.entities.t = "list"
    /\ Len(m.entities.items) > 0
    /\ \A p \in 1..Len(m.entities.items) :
         m.entities.items[p].t = "dict" /\ "name" \in m.entities.items[p].keys

\* entities is a non-empty list whose first element is a string.
FirstEntityIsString(m) ==
    /\ m.t = "dict"
    /\ "entities" \in m.keys
    /\ m.entities.t = "list"
    /\ Len(m.entities.items) > 0
    /\ m.entities.items[1].t = "str"

BadNames == {bad_objects[p].name : p \in 1..Len(bad_objects)}
DropStmts == SelectSeq(stmts, LAMBDA st : st.op = "DROP")
TagStmts == SelectSeq(stmts, LAMBDA st : st.op = "TAG")
Dropped(k) == \E p \in 1..Len(stmts) : stmts[p].op = "DROP" /\ stmts[p].name = k
Printed(kind, k) == \E p \in 1..Len(out) : out[p].kind = kind /\ out[p].name = k
ScanReturned == \E p \in 1..Len(out) : out[p].kind = "SUMMARY"
CheckOnly == args.check /\ ~args.drop

(* -------------------------------- claims -------------------------------- *)

\* C1: under --check alone no DROP is ever issued and the set of objects in
\* the store stays what it was, whatever the store holds and whichever
\* inspections fail.
C1_CheckOnlyChangesNothing ==
    CheckOnly => (DropStmts = <<>> /\ present = DOMAIN store)

C1_Witness ==
    /\ pc = "done" /\ exit = 0 /\ CheckOnly
    /\ bad_objects # <<>>
    /\ \E k \in DOMAIN store : Printed("ERR", k)

\* C2 (as claimed): an object whose metadata is in the conforming shape is
\* never in the bad list and no DROP is ever issued for it.
C2_ConformingNeverBadNorDropped ==
    \A k \in DOMAIN store :
        (Readable(k) /\ Conforming(MetaOf(k))) => (k \notin BadNames /\ ~Dropped(k))

\* C3 (as claimed): once the scan has returned, every object whose metadata
\* is in the legacy shape has been reported as bad with its identity and its
\* metadata, and a finished --drop run has issued a DROP for it.
C3_LegacyReportedAndDropped ==
    ScanReturned =>
        \A k \in DOMAIN store :
            (Readable(k) /\ Legacy(MetaOf(k))) =>
                /\ k \in BadNames
                /\ \E p \in 1..Len(out) :
                     out[p].kind = "BAD" /\ out[p].name = k
                     /\ out[p].text = store[k].resp.text
                /\ (args.drop /\ pc = "done") => Dropped(k)

\* C4: an inspected object is in the bad list if and only if its tag value
\* decodes to a record whose entities is a non-empty list whose first
\* element is a string.
C4_BadIffFirstEntityIsString ==
    \A p \in 1..Len(objects) :
        (p < i) =>
            LET k == objects[p].name
            IN  (k \in BadNames) <=> (Readable(k) /\ FirstEntityIsString(MetaOf(k)))

C4_Witness ==
    /\ ScanReturned
    /\ \E k \in DOMAIN store :
         k \in BadNames /\ ~Conforming(MetaOf(k))
    /\ \E k \in DOMAIN store :
         k \notin BadNames /\ Readable(k) /\ MetaOf(k).t = "dict"
         /\ Truthy(get_entities(MetaOf(k)))

\* The store holds exactly one legacy-shape and one conforming-shape object.
OneLegacyOneConforming ==
    /\ Len(store) = 2
    /\ Readable(1) /\ Readable(2)
    /\ \/ Legacy(MetaOf(1)) /\ Conforming(MetaOf(2))
       \/ Conforming(MetaOf(1)) /\ Legacy(MetaOf(2))

\* C5: --check against a store of exactly one legacy-shape and one
\* conforming-shape object reports a bad count of exactly one and deletes
\* nothing.
C5_ScenarioE ==
    (CheckOnly /\ OneLegacyOneConforming) =>
        /\ DropStmts = <<>>
        /\ present = DOMAIN store
        /\ \A p \in 1..Len(out) : out[p].kind = "SUMMARY" => out[p].n = 1
        /\ ScanReturned => Len(bad_objects) = 1

C5_Witness ==
    /\ CheckOnly /\ OneLegacyOneConforming
    /\ pc = "done" /\ exit = 0 /\ ScanReturned

\* C6: with neither flag the utility ends with a usage error and a non-zero
\* exit before any connection is opened; no statement reaches the store.
C6_NoFlagIsUsageError ==
    (pc # "start" /\ ~args.check /\ ~args.drop) =>
        /\ pc = "done"
        /\ exit = 2
        /\ Printed("USAGE", 0)
        /\ connects = 0
        /\ conn = "none"
        /\ stmts = <<>>
        /\ present = DOMAIN store

C6_Witness ==
    pc = "done" /\ ~args.check /\ ~args.drop /\ exit = 2 /\ Len(store) > 0

\* C7 (as claimed): every run that reaches the scan has exactly one of the
\* two flags set, so a run given both flags issues no statement.
C7_ExactlyOneFlagReachesScan ==
    (stmts # <<>>) => (args.check # args.drop)

\* The inspection of the object fails: its query raises or its tag text is
\* not valid structured data.
InspectionFails(k) ==
    \/ store[k].resp.kind = "raise"
    \/ store[k].resp.kind = "row" /\ ~store[k].resp.text.valid

\* C8: an error raised while inspecting one object is caught and logged: the
\* objects that follow it are still inspected (the scan inspects the whole
\* listing, in order, and returns), the failing object is not in the bad
\* list, and a --check run that scanned ends with exit status 0.
C8_InspectionErrorNotFatal ==
    /\ \A p \in 1..Len(objects) :
         (p < i /\ InspectionFails(objects[p].name)) =>
             /\ objects[p].name \notin BadNames
             /\ Printed("ERR", objects[p].name)
    /\ (pc \in {"drop", "finally", "done"} /\ objects # <<>>) =>
         /\ ScanReturned
         /\ [p \in 1..Len(TagStmts) |-> TagStmts[p].name]
              = [p \in 1..Len(objects) |-> objects[p].name]
    /\ (pc = "done" /\ CheckOnly /\ ScanReturned) => exit = 0

C8_Witness ==
    /\ pc = "done" /\ CheckOnly /\ exit = 0
    /\ Len(objects) = 2
    /\ InspectionFails(objects[1].name)
    /\ store[objects[1].name].resp.kind = "row"
    /\ objects[2].name \in BadNames

\* C9: under --drop a DROP is attempted for every object of the bad list,
\* whichever of the deletions fail, and the run ends normally.
C9_DropFailureNotFatal ==
    /\ (pc = "drop") =>
         /\ ~pending
         /\ [p \in 1..Len(DropStmts) |-> DropStmts[p].name]
              = [p \in 1..(j - 1) |-> bad_objects[p].name]
    /\ (pc \in {"finally", "done"} /\ args.drop /\ ScanReturned) =>
         /\ [p \in 1..Len(DropStmts) |-> DropStmts[p].name]
              = [p \in 1..Len(bad_objects) |-> bad_objects[p].name]
         /\ ~pending
    /\ (pc = "done" /\ args.drop /\ ScanReturned) => exit = 0

C9_Witness ==
    /\ pc = "done" /\ args.drop /\ exit = 0
    /\ Len(bad_objects) = 2
    /\ Printed("DROPERR", bad_objects[1].name)
    /\ Printed("DROPPED", bad_objects[2].name)

\* C10: when the connection cannot be opened the utility aborts at once: it
\* has called get_connection once, it ends with a non-zero exit, and no
\* listing, inspection or delete statement is issued.
C10_ConnectionErrorFatal ==
    /\ connects <= 1
    /\ (conn = "failed") =>
         /\ pc = "done"
         /\ exit = 1
         /\ connects = 1
         /\ stmts = <<>>
         /\ present = DOMAIN store

C10_Witness ==
    conn = "failed" /\ pc = "done" /\ Len(store) > 0 /\ args.drop

\* Malformed record: entities absent, not a sequence or empty, or
\* timestamp_col absent or not a string.
Malformed(m) ==
    /\ m.t = "dict"
    /\ \/ "entities" \notin m.keys
       \/ m.entities.t # "list"
       \/ Len(m.entities.items) = 0
       \/ "timestamp_col" \notin m.keys
       \/ m.timestamp_col # "str"

\* C11 (as claimed): once the scan has returned, every object whose metadata
\* is malformed has a line of the report of its own, and the scan has
\* inspected the whole listing.
C11_MalformedReported ==
    ScanReturned =>
        /\ Len(TagStmts) = Len(objects)
        /\ \A k \in DOMAIN store :
             (Readable(k) /\ Malformed(MetaOf(k))) =>
                 \E p \in 1..Len(out) : out[p].name = k

\* Legacy record one of whose entity objects has name but no joinKeys.
LegacyMissingJoinKeys(m) ==
    /\ Legacy(m)
    /\ \E p \in 1..Len(m.entities.items) : "joinKeys" \notin m.entities.items[p].keys

\* C12 (as claimed): a legacy record whose entity object has no joinKeys is
\* classified without an exception and is reported with a diagnostic of its
\* own: once the scan has returned, no error is logged for the object and a
\* line of the report names it.
C12_MissingJoinKeysFlagged ==
    ScanReturned =>
        \A k \in DOMAIN store :
            (Readable(k) /\ LegacyMissingJoinKeys(MetaOf(k))) =>
                /\ ~Printed("ERR", k)
                /\ \E p \in 1..Len(out) : out[p].name = k /\ out[p].kind # "ERR"

Summaries(o) == SelectSeq(o, LAMBDA l : l.kind = "SUMMARY")
WasCheckOnly == prev.ran /\ prev.args.check /\ ~prev.args.drop

\* C13: two consecutive --check runs whose scans returned, against the same
\* store, yield the same bad list, in the same order, and the same count.
C13_CheckIdempotent ==
    (WasCheckOnly /\ Summaries(prev.out) # <<>> /\ CheckOnly /\ ScanReturned) =>
        /\ bad_objects = prev.bad_objects
        /\ Summaries(out) = Summaries(prev.out)

C13_Witness ==
    /\ WasCheckOnly /\ CheckOnly /\ ScanReturned /\ pc = "done"
    /\ Summaries(prev.out) # <<>>
    /\ bad_objects # <<>>
    /\ \E k \in DOMAIN store : Printed("ERR", k)

\* C20: once the connection and the cursor are open, each is closed exactly
\* once on every way out of main, also when an exception leaves the try;
\* neither is closed before main is on its way out.
C20_ClosedExactlyOnce ==
    /\ closes.cursor <= 1 /\ closes.conn <= 1
    /\ (pc # "done") => closes = [cursor |-> 0, conn |-> 0]
    /\ (pc = "done" /\ connects = 1 /\ conn # "failed") =>
         /\ closes = [cursor |-> 1, conn |-> 1]
         /\ conn = "closed"
         /\ cursor = "closed"

C20_Witness ==
    /\ pc = "done" /\ pending /\ exit = 1
    /\ closes = [cursor |-> 1, conn |-> 1]
    /\ stmts = <<Stmt("LIST", 0, "")>>

\* The environment variable each connection parameter is read from.
VarOf(key) ==
    CASE key = "account" -> "SNOWFLAKE_ACCOUNT"
      [] key = "user" -> "SNOWFLAKE_USER"
      [] key = "password" -> "SNOWFLAKE_PASSWORD"
      [] key = "role" -> "SNOWFLAKE_ROLE"
      [] key = "warehouse" -> "SNOWFLAKE_WAREHOUSE"
      [] key = "database" -> "SNOWFLAKE_DATABASE"
      [] OTHER -> "SNOWFLAKE_SCHEMA"

\* C14 (as claimed): the parameters a caller uses to open the connection
\* hold no key whose environment variable is unset.
C14_UnsetParamsOmitted ==
    \A c \in Callers :
        (params[c] # NotBuilt) =>
            \A it \in params[c] : VarOf(it.key) \in env

\* C15: in a test module the session is created once, before the first test
\* that uses it runs, and closed once, after the module's last test,
\* whatever the tests' outcomes; every test that uses the session and runs
\* meets it open.
C15_SessionOncePerModule ==
    /\ creates <= 1
    /\ sess_closes <= 1
    /\ \A p \in 1..Len(ran) :
         (ran[p].uses /\ ran[p].result # "error") => ran[p].session = "open"
    /\ (\E p \in 1..Len(ran) : ran[p].uses) => creates = 1
    /\ (sess_closes > 0) => (tests = <<>> /\ fpc = "finished")
    /\ (fpc = "finished" /\ \E p \in 1..Len(ran) : ran[p].session = "open") =>
         (sess_closes = 1 /\ session = "closed")

C15_Witness ==
    /\ fpc = "finished" /\ sess_closes = 1 /\ creates = 1
    /\ Len(ran) = 3
    /\ ~ran[1].uses /\ ran[2].uses /\ ran[3].uses
    /\ ran[2].result = "fail" /\ ran[3].result = "pass"

\* Every element of the entities value is a string equal to its uppercase form.
AllUppercaseStrings(m) ==
    \A p \in 1..Len(m.entities.items) :
        m.entities.items[p].t = "str"
        /\ m.entities.items[p].v = Upper(m.entities.items[p].v)

\* C16 (as claimed): a record accepted by test_entities_are_uppercase_strings
\* has a non-empty entities, each element of which is a string equal to its
\* own uppercase form.
C16_AcceptedIsConforming ==
    (verdict["uppercase"] = "pass") =>
        /\ "entities" \in dbt_metadata.keys
        /\ Len(dbt_metadata.entities.items) > 0
        /\ AllUppercaseStrings(dbt_metadata)

\* The record has entities and timestamp_col, entities is a non-empty list,
\* and every element is an object with an uppercase name and a non-empty
\* list of joinKeys.
UiShape(m) ==
    /\ {"entities", "timestamp_col"} \subseteq m.keys
    /\ m.entities.t = "list"
    /\ m.entities.items # <<>>
    /\ \A p \in 1..Len(m.entities.items) :
         LET x == m.entities.items[p]
         IN  /\ x.t = "dict"
             /\ {"name", "joinKeys"} \subseteq x.keys
             /\ x.v = Upper(x.v)
             /\ x.jk = "list1"

\* C17: the UI-compatibility check accepts a record if and only if it has
\* entities and timestamp_col, entities is a non-empty list, and every
\* element is an object with a name equal to its uppercase form and a
\* joinKeys that is a non-empty list; otherwise it fails an assertion.
C17_UiCompatibilityAcceptsIff ==
    (verdict["ui_compatibility"] # "not run") =>
        /\ (verdict["ui_compatibility"] = "pass") <=> UiShape(dbt_metadata)
        /\ verdict["ui_compatibility"] \in {"pass", "AssertionError"}

C17_Witness ==
    /\ verdict["ui_compatibility"] = "pass"
    /\ Len(dbt_metadata.entities.items) = 2

\* Every element is a string or an object that has both name and joinKeys.
AllParseable(m) ==
    \A p \in 1..Len(m.entities.items) :
        LET x == m.entities.items[p]
        IN  x.t = "str" \/ (x.t = "dict" /\ {"name", "joinKeys"} \subseteq x.keys)

\* C19 (as claimed): the simulated consumer parse succeeds if and only if
\* the record has entities and every element of it is a string or an object
\* with both name and joinKeys; in every other case it ends in an assertion
\* failure.
C19_ParseSucceedsIffElseAssertion ==
    (verdict["ui_parse"] # "not run" /\ dbt_metadata # NoMetadata) =>
        /\ (verdict["ui_parse"] = "pass") <=>
               ("entities" \in dbt_metadata.keys /\ AllParseable(dbt_metadata))
        /\ verdict["ui_parse"] \in {"pass", "AssertionError"}

\* C19 (amended): the parse succeeds if and only if the record has an
\* entities that is a list or a string each of whose elements (characters,
\* for a string) is a string or an object with both name and joinKeys; it
\* ends in an uncaught TypeError when there is no record or entities is null
\* or a number, in an assertion failure in every other case, and never in
\* an uncaught KeyError.
C19_ParseOutcome ==
    (verdict["ui_parse"] # "not run") =>
        LET m == dbt_metadata
            has == "entities" \in m.keys
        IN  /\ verdict["ui_parse"] # "KeyError"
            /\ (verdict["ui_parse"] = "pass") <=>
                   (has /\ m.entities.t \in {"list", "str"} /\ AllParseable(m))
            /\ (verdict["ui_parse"] = "TypeError") <=>
                   (m = NoMetadata \/ (has /\ m.entities.t \in {"int", "none"}))
            /\ verdict["ui_parse"] \in {"pass", "TypeError", "AssertionError"}

C19_Witness ==
    /\ verdict["ui_parse"] = "AssertionError"
    /\ dbt_metadata # NoMetadata
    /\ "entities" \notin dbt_metadata.keys

\* C18 (as claimed): the structure comparison of the reference record and
\* the dbt record passes only if the two have the same key set, the same
\* number of entities, the same type of timestamp_col and the same element
\* type at every position of entities.  Stated of the two comparison tests
\* together: even when both pass, the records have the same structure.
C18_ComparisonCatchesAnyDifference ==
    (verdict["compare_full"] = "pass" /\ verdict["matches_python_api"] = "pass") =>
        /\ python_metadata.keys = dbt_metadata.keys
        /\ Len(python_metadata.entities.items) = Len(dbt_metadata.entities.items)
        /\ python_metadata.timestamp_col = dbt_metadata.timestamp_col
        /\ \A p \in 1..Len(python_metadata.entities.items) :
             python_metadata.entities.items[p].t = dbt_metadata.entities.items[p].t

\* The object names of a sequence of list entries or statements, in order.
NamesOf(s) == [p \in 1..Len(s) |-> s[p].name]

\* C21: under --drop the deletes issued are, at every moment, the first
\* entries of the bad list returned by the scan, one delete per entry and in
\* scan order, and when the run ends they are the whole bad list; an object
\* the scan did not report (its inspection raised, or returned no tag row,
\* or found another shape) is never deleted; the count printed by the
\* summary equals the number of deletes attempted.
C21_DropsExactlyBadList ==
    /\ Len(DropStmts) <= Len(bad_objects)
    /\ NamesOf(DropStmts) = SubSeq(NamesOf(bad_objects), 1, Len(DropStmts))
    /\ (DropStmts # <<>>) => args.drop /\ ScanReturned
    /\ \A k \in DOMAIN store :
         Dropped(k) => /\ Printed("BAD", k)
                       /\ store[k].resp.kind = "row"
                       /\ store[k].resp.text.valid
    /\ (pc = "done" /\ args.drop /\ ScanReturned) =>
         /\ NamesOf(DropStmts) = NamesOf(bad_objects)
         /\ Summaries(out) = <<Line("SUMMARY", 0, "", InvalidText, Len(DropStmts))>>

C21_Witness ==
    /\ pc = "done" /\ args.drop
    /\ Len(DropStmts) = 1
    /\ Len(store) = 2
    /\ \E k \in DOMAIN store : store[k].resp.kind \in {"raise", "norow"} /\ ~Dropped(k)
    /\ \E p \in 1..Len(out) : out[p].kind = "DROPERR"

\* The object the drop loop is about to delete is already gone.
NextDropIsGone ==
    /\ pc = "drop"
    /\ j <= Len(bad_objects)
    /\ bad_objects[j].name \notin present

\* The kind of every delete issued follows from the domain listed for its
\* object: DYNAMIC TABLE for TABLE, VIEW for every other domain.
DropKindFollowsDomain ==
    \A p \in 1..Len(DropStmts) :
        LET st == DropStmts[p]
        IN  /\ bad_objects[p].name = st.name
            /\ bad_objects[p].type = store[st.name].domain
            /\ (store[st.name].domain = "TABLE") => st.type = "DYNAMIC TABLE"
            /\ (store[st.name].domain # "TABLE") => st.type = "VIEW"

\* A delete of an object that is already gone is reported as done, not as
\* an error, and the loop goes on to the next entry.
GoneDropIsNotAnError ==
    (NextDropIsGone /\ j' # j) =>
        /\ j' = j + 1
        /\ out' = Append(out, Line("DROPPED", bad_objects[j].name,
                                   stmts'[Len(stmts')].type, InvalidText, 0))
        /\ pending' = pending

\* C22: the kind of delete issued for a bad object is determined by its
\* recorded domain alone, a dynamic-table delete for TABLE and a view delete
\* for every other domain; the delete is issued with IF EXISTS, so that a
\* delete of an object already gone is not an error.
C22_DropKindByDomain ==
    /\ []DropKindFollowsDomain
    /\ [][GoneDropIsNotAnError]_vars

\* The first entry was deleted as a dynamic table; the second, listed with
\* domain COLUMN, has been dropped by another session and is next.
C22_Witness ==
    /\ NextDropIsGone
    /\ j = 2
    /\ Len(DropStmts) = 1
    /\ DropStmts[1].type = "DYNAMIC TABLE"
    /\ store[DropStmts[1].name].domain = "TABLE"
    /\ bad_objects[2].type = "COLUMN"

\* The previous run was a --drop run that ended normally and printed no
\* inspection error and no delete error.
WasCleanDrop ==
    /\ prev.ran
    /\ prev.args.drop
    /\ prev.exit = 0
    /\ \A p \in 1..Len(prev.out) : prev.out[p].kind \notin {"ERR", "DROPERR"}

\* C23: after a --drop run in which every inspection and every delete
\* succeeded, the next run against the store as that run left it finds no
\* bad object: its scan, once returned, reports a count of zero, and the run
\* issues no delete, whatever its flags.
C23_SecondDropDeletesNothing ==
    WasCleanDrop =>
        /\ bad_objects = <<>>
        /\ DropStmts = <<>>
        /\ \A p \in 1..Len(out) : out[p].kind \notin {"BAD", "DROPPED", "DROPERR"}
        /\ ScanReturned => Summaries(out) = <<Line("SUMMARY", 0, "", InvalidText, 0)>>

C23_Witness ==
    /\ WasCleanDrop
    /\ Len(prev.bad_objects) = 1
    /\ \E p \in 1..Len(prev.out) : prev.out[p].kind = "DROPPED"
    /\ Cardinality(present) = 1
    /\ args.drop /\ ~args.check
    /\ ScanReturned
    /\ TagStmts # <<>>
    /\ pc = "done" /\ exit = 0

\* C24: no metadata record is accepted both by
\* test_feature_view_metadata_structure_ui_compatibility and by
\* test_entities_are_uppercase_strings; in particular none with a non-empty
\* entities list, the first element of which would have to be an object and
\* a string at once.
C24_ShapeChecksExclusive ==
    ~(verdict["ui_compatibility"] = "pass" /\ verdict["uppercase"] = "pass")

C24_Witness ==
    /\ verdict["uppercase"] = "pass"
    /\ verdict["ui_compatibility"] = "AssertionError"
    /\ "entities" \in dbt_metadata.keys
    /\ "timestamp_col" \in dbt_metadata.keys
    /\ dbt_metadata.entities.t = "list"
    /\ Len(dbt_metadata.entities.items) = 2

====
